---- MODULE Spec2Model ----
(***************************************************************************)
(* bfbin2text (tools/postproc/bfbin2text.cpp): the renderer that turns the *)
(* Byfl binary decoder's table/column/row events into delimited text.      *)
(*                                                                         *)
(* Strings are sequences of one-character strings, so that quoting and     *)
(* escape expansion are computed character by character as the code does.  *)
(* The output stream is the sequence of characters written to *outfile;    *)
(* synced is the length of its prefix that has reached the sink.  The      *)
(* bounded outputs are far below a stream buffer's capacity, so a write    *)
(* never flushes on its own: only flush(), close and exit-time flushing    *)
(* of cout move characters to the sink.                                    *)
(***************************************************************************)
EXTENDS Integers, Sequences, FiniteSets

VARIABLES
  args,             \* the command line: options and number of positionals
  outfilename,      \* LocalState::outfilename
  outfile,          \* LocalState::outfile: "cout" or "file"
  tablenum,         \* LocalState::tablenum
  colsep,           \* LocalState::colsep
  colnum,           \* LocalState::colnum
  included_tables,  \* LocalState::included_tables
  excluded_tables,  \* LocalState::excluded_tables
  suppress_table,   \* LocalState::suppress_table
  only_names,       \* LocalState::only_names
  out,              \* characters written to *outfile so far
  synced,           \* how many of them have been flushed to the sink
  diag,             \* which diagnostic was written to cerr ("" = none)
  pc,               \* "ctor", "decoding", "exited"; "call"/"ret" for a pure call
  status,           \* process exit status (-1 while running)
  dpos,             \* decoder position in the event grammar
  hist,             \* events the decoder has delivered so far
  arg,              \* argument of the pure function under SpecQuote
  ret               \* its result

lvars == <<outfilename, outfile, tablenum, colsep, colnum, included_tables,
           excluded_tables, suppress_table, only_names>>
vars == <<args, outfilename, outfile, tablenum, colsep, colnum,
          included_tables, excluded_tables, suppress_table, only_names,
          out, synced, diag, pc, status, dpos, hist, arg, ret>>

----------------------------------------------------------------------------
(* Bounds and input sets *)

MaxEvents == 9       \* events the decoder delivers in one run
MaxStrLen == 3       \* length of the strings handed to quote_for_csv
MaxRawLen == 4       \* length of the strings handed to expand_escapes

DQ == "\""
NL == "\n"
TAB == "\t"
BS == "\\"

T1 == <<"T", "1">>
T2 == <<"-", "2">>
TableNames == {T1, T2}
ColNames == {<<"A">>, <<"B">>}
U64Values == {5, 12}
BoolValues == {0, 2}
StrValues == {<<"x">>}
RawSeps == {<<BS, "t">>, <<BS, "q">>}
OutNames == {<<>>, <<"o">>}
QuoteAlphabet == {"a", "-", DQ, "="}
ExpandAlphabet == {"a", "b", "q", "t", "n", "r", "'", DQ, BS}

RECURSIVE StringsUpTo(_, _)
StringsUpTo(alphabet, n) ==
  IF n = 0 THEN {<<>>}
  ELSE LET shorter == StringsUpTo(alphabet, n - 1)
       IN  shorter \cup {Append(s, c) : s \in shorter, c \in alphabet}

Ev(kind, name, num) == [kind |-> kind, name |-> name, num |-> num]

----------------------------------------------------------------------------
(* Pure helpers *)

\* the step with "\t" expanded to the letter t
expand_char_t_verbatim(st, c) ==
  IF ~st.ok THEN st
  ELSE IF st.esc
    THEN IF c \in {BS, "'", DQ, "t"}
           THEN [st EXCEPT !.out = Append(@, c), !.esc = FALSE]
         ELSE IF c = "n" THEN [st EXCEPT !.out = Append(@, NL), !.esc = FALSE]
         ELSE IF c = "r" THEN [st EXCEPT !.out = Append(@, "\r"), !.esc = FALSE]
         ELSE [st EXCEPT !.ok = FALSE, !.bad = c]
    ELSE IF c = BS THEN [st EXCEPT !.esc = TRUE]
         ELSE [st EXCEPT !.out = Append(@, c)]

\* the step with an unrecognized escape copied through instead of reported
expand_char_lenient(st, c) ==
  IF ~st.ok THEN st
  ELSE IF st.esc
    THEN IF c = "t" THEN [st EXCEPT !.out = Append(@, TAB), !.esc = FALSE]
         ELSE IF c = "n" THEN [st EXCEPT !.out = Append(@, NL), !.esc = FALSE]
         ELSE IF c = "r" THEN [st EXCEPT !.out = Append(@, "\r"), !.esc = FALSE]
         ELSE [st EXCEPT !.out = Append(@, c), !.esc = FALSE]
    ELSE IF c = BS THEN [st EXCEPT !.esc = TRUE]
         ELSE [st EXCEPT !.out = Append(@, c)]

\* One step of the loop of expand_escapes: st = [out, esc, ok, bad]
expand_char(st, c) ==
  IF ~st.ok THEN st
  ELSE IF st.esc
    THEN IF c \in {BS, "'", DQ}
           THEN [st EXCEPT !.out = Append(@, c), !.esc = FALSE]
         ELSE IF c = "t" THEN [st EXCEPT !.out = Append(@, TAB), !.esc = FALSE]
         ELSE IF c = "n" THEN [st EXCEPT !.out = Append(@, NL), !.esc = FALSE]
         ELSE IF c = "r" THEN [st EXCEPT !.out = Append(@, "\r"), !.esc = FALSE]
         ELSE [st EXCEPT !.ok = FALSE, !.bad = c]
    ELSE IF c = BS THEN [st EXCEPT !.esc = TRUE]
         ELSE [st EXCEPT !.out = Append(@, c)]

RECURSIVE expand_loop(_, _)
expand_loop(st, rest) ==
  IF rest = <<>> THEN st
  ELSE expand_loop(expand_char(st, Head(rest)), Tail(rest))

\* LocalState::expand_escapes: ok = FALSE when it dies on an unrecognized
\* escape; otherwise str is the returned string.
expand_escapes(in_str) ==
  LET st == expand_loop([out |-> <<>>, esc |-> FALSE, ok |-> TRUE, bad |-> ""],
                        in_str)
  IN  [ok |-> st.ok, str |-> st.out, bad |-> st.bad]

\* the loop without the doubling of an internal double quote
quote_body_no_doubling(s) == s

RECURSIVE quote_body(_)
quote_body(s) ==
  IF s = <<>> THEN <<>>
  ELSE (IF Head(s) = DQ THEN <<DQ>> ELSE <<>>) \o <<Head(s)>> \o quote_body(Tail(s))

\* the guard applied to a '-' anywhere in the string
quote_prefix_any_minus(in_str) ==
  IF \E i \in 1..Len(in_str) : in_str[i] = "-" THEN <<"=">> ELSE <<>>

quote_prefix(in_str) ==
  IF Len(in_str) > 0 /\ in_str[1] = "-" THEN <<"=">> ELSE <<>>

\* the closing quote left out when nothing needed quoting
quote_for_csv_open_only(in_str) ==
  quote_prefix(in_str) \o <<DQ>> \o quote_body(in_str)
  \o (IF in_str = <<>> THEN <<>> ELSE <<DQ>>)

quote_for_csv(in_str) ==
  quote_prefix(in_str) \o <<DQ>> \o quote_body(in_str) \o <<DQ>>

Digit(d) == <<"0", "1", "2", "3", "4", "5", "6", "7", "8", "9">>[d + 1]

\* operator<< (ostream&, uint64_t): decimal digits
RECURSIVE format_uint64(_)
format_uint64(n) ==
  IF n < 10 THEN <<Digit(n)>>
  ELSE format_uint64(n \div 10) \o <<Digit(n % 10)>>

format_bool(value) ==
  IF value = 0 THEN <<"F", "A", "L", "S", "E">> ELSE <<"T", "R", "U", "E">>

----------------------------------------------------------------------------
(* Process start, termination and the output stream *)

ArgSets ==
  [output  : OutNames,                              \* -o PATH ("" = not given)
   colsep  : {<<>>} \cup {<<r>> : r \in RawSeps},   \* the -c options, in order
   include : SUBSET {T1},                           \* the -i options
   exclude : SUBSET {T1},                           \* the -e options
   list    : BOOLEAN,                               \* -l
   nfiles  : 0..2]                                  \* argc - optind

Init ==
  /\ args \in ArgSets
  /\ outfilename = <<>>
  /\ outfile = "cout"
  /\ tablenum = 0
  /\ colsep = <<",">>
  /\ colnum = 0
  /\ included_tables = {}
  /\ excluded_tables = {}
  /\ suppress_table = FALSE
  /\ only_names = FALSE
  /\ out = <<>>
  /\ synced = 0
  /\ diag = ""
  /\ pc = "ctor"
  /\ status = -1
  /\ dpos = "tables"
  /\ hist = <<>>
  /\ arg = <<>>
  /\ ret = <<>>

\* die: flushes the stream it is applied to, which is cerr at every use, and
\* calls exit(1).  exit() flushes cout (a static stream); it runs no destructor
\* of main's LocalState, so a heap-allocated ofstream is neither flushed nor
\* closed.
die(message) ==
  /\ diag' = message
  /\ pc' = "exited"
  /\ status' = 1
  /\ synced' = IF outfile = "cout" THEN Len(out) ELSE synced

\* LocalState::~LocalState: delete outfile (flush and close) or outfile->flush()
LocalState_dtor ==
  synced' = Len(out)

\* The -c options expand in order; the first bad one dies.
BadSeps(cs) == {i \in 1..Len(cs) : ~expand_escapes(cs[i]).ok}

\* the test passing a single --exclude
both_given_off_by_one(excluded, included) ==
  Cardinality(excluded) > 1 /\ Cardinality(included) > 0

\* "Ensure that tables are either included or excluded, not both."
both_given(excluded, included) ==
  Cardinality(excluded) > 0 /\ Cardinality(included) > 0

\* LocalState::LocalState: walk the options, check the positionals, check
\* include against exclude, open the output file.
LocalState_ctor ==
  /\ pc = "ctor"
  /\ UNCHANGED <<args, tablenum, colnum, suppress_table, out, dpos, hist, arg, ret>>
  /\ IF BadSeps(args.colsep) # {}
       THEN \* dies inside the option loop: the options that follow -c on
            \* the command line (all of them, or none) are never read
            \E cfirst \in BOOLEAN :
              /\ colsep' = args.colsep[1]
              /\ outfilename' = IF cfirst THEN <<>> ELSE args.output
              /\ included_tables' = IF cfirst THEN {} ELSE args.include
              /\ excluded_tables' = IF cfirst THEN {} ELSE args.exclude
              /\ only_names' = IF cfirst THEN FALSE ELSE args.list
              /\ outfile' = outfile
              /\ die("escape")
       ELSE /\ colsep' = IF args.colsep = <<>> THEN colsep
                         ELSE expand_escapes(args.colsep[Len(args.colsep)]).str
            /\ outfilename' = args.output
            /\ included_tables' = args.include
            /\ excluded_tables' = args.exclude
            /\ only_names' = args.list
            /\ IF args.nfiles = 0 THEN outfile' = outfile /\ die("nofile")
               ELSE IF args.nfiles > 1 THEN outfile' = outfile /\ die("manyfiles")
               ELSE IF both_given(args.exclude, args.include)
                 THEN outfile' = outfile /\ die("usage")
               ELSE IF args.output # <<>>
                 THEN \/ outfile' = outfile /\ die("open")      \* is_open() fails
                      \/ /\ outfile' = "file"
                         /\ pc' = "decoding"
                         /\ UNCHANGED <<diag, status, synced>>
               ELSE /\ pc' = "decoding"
                    /\ UNCHANGED <<outfile, diag, status, synced>>

----------------------------------------------------------------------------
(* The event handlers.  Each leaves the rest of the LocalState alone. *)

write(chars) == out' = out \o chars

\* a filter that forgets the exclude-set
filtered_include_only(name) ==
  Cardinality(included_tables) > 0 /\ name \notin included_tables

\* The table filter of begin_any_table
filtered(name) ==
  \/ Cardinality(included_tables) > 0 /\ name \notin included_tables
  \/ name \in excluded_tables

\* a rendered table's name taken out of the include-set once it was found
begin_any_table_consumes_include(tablename) ==
  /\ UNCHANGED <<outfilename, outfile, colsep, colnum, excluded_tables, only_names>>
  /\ IF filtered(tablename)
       THEN suppress_table' = TRUE /\ UNCHANGED <<tablenum, out, included_tables>>
       ELSE /\ included_tables' = included_tables \ {tablename}
            /\ IF only_names
                 THEN /\ suppress_table' = TRUE
                      /\ UNCHANGED tablenum
                      /\ write(quote_for_csv(tablename) \o <<NL>>)
                 ELSE /\ suppress_table' = FALSE
                      /\ tablenum' = tablenum + 1
                      /\ write((IF tablenum > 0 THEN <<NL>> ELSE <<>>)
                               \o quote_for_csv(tablename) \o <<NL>>)

\* the table counter incremented before the filter is consulted
begin_any_table_counts_all(tablename) ==
  /\ UNCHANGED <<outfilename, outfile, colsep, colnum, included_tables,
                 excluded_tables, only_names>>
  /\ tablenum' = tablenum + 1
  /\ IF filtered(tablename)
       THEN suppress_table' = TRUE /\ UNCHANGED out
       ELSE IF only_names
         THEN /\ suppress_table' = TRUE
              /\ write(quote_for_csv(tablename) \o <<NL>>)
         ELSE /\ suppress_table' = FALSE
              /\ write((IF tablenum > 0 THEN <<NL>> ELSE <<>>)
                       \o quote_for_csv(tablename) \o <<NL>>)

\* only-names mode that leaves the table's body unsuppressed
begin_any_table_list_keeps_body(tablename) ==
  /\ UNCHANGED <<outfilename, outfile, colsep, colnum, included_tables,
                 excluded_tables, only_names>>
  /\ IF filtered(tablename)
       THEN suppress_table' = TRUE /\ UNCHANGED <<tablenum, out>>
       ELSE /\ suppress_table' = FALSE
            /\ IF only_names
                 THEN /\ UNCHANGED tablenum
                      /\ write(quote_for_csv(tablename) \o <<NL>>)
                 ELSE /\ tablenum' = tablenum + 1
                      /\ write((IF tablenum > 0 THEN <<NL>> ELSE <<>>)
                               \o quote_for_csv(tablename) \o <<NL>>)

\* the blank line and the counter shared by both modes
begin_any_table_blank_in_list(tablename) ==
  /\ UNCHANGED <<outfilename, outfile, colsep, colnum, included_tables,
                 excluded_tables, only_names>>
  /\ IF filtered(tablename)
       THEN suppress_table' = TRUE /\ UNCHANGED <<tablenum, out>>
       ELSE /\ suppress_table' = only_names
            /\ tablenum' = tablenum + 1
            /\ write((IF tablenum > 0 THEN <<NL>> ELSE <<>>)
                     \o quote_for_csv(tablename) \o <<NL>>)

begin_any_table(tablename) ==
  /\ UNCHANGED <<outfilename, outfile, colsep, colnum, included_tables,
                 excluded_tables, only_names>>
  /\ IF filtered(tablename)
       THEN suppress_table' = TRUE /\ UNCHANGED <<tablenum, out>>
       ELSE IF only_names
         THEN /\ suppress_table' = TRUE
              /\ UNCHANGED tablenum
              /\ write(quote_for_csv(tablename) \o <<NL>>)
         ELSE /\ suppress_table' = FALSE
              /\ tablenum' = tablenum + 1
              /\ write((IF tablenum > 0 THEN <<NL>> ELSE <<>>)
                       \o quote_for_csv(tablename) \o <<NL>>)

\* a row begin that forgets the reset
begin_row_never_resets ==
  UNCHANGED <<outfilename, outfile, tablenum, colsep, colnum, included_tables,
              excluded_tables, suppress_table, only_names, out>>

\* a row begin that resets the counter in a suppressed table too
begin_row_always_resets ==
  /\ UNCHANGED <<outfilename, outfile, tablenum, colsep, included_tables,
                 excluded_tables, suppress_table, only_names, out>>
  /\ colnum' = 0

begin_row ==
  /\ UNCHANGED <<outfilename, outfile, tablenum, colsep, included_tables,
                 excluded_tables, suppress_table, only_names, out>>
  /\ IF suppress_table THEN UNCHANGED colnum ELSE colnum' = 0

\* the separator written before the first cell of a row as well
write_cell_sep_always(text) ==
  /\ UNCHANGED <<outfilename, outfile, tablenum, colsep, included_tables,
                 excluded_tables, suppress_table, only_names>>
  /\ IF suppress_table
       THEN UNCHANGED <<colnum, out>>
       ELSE /\ write(colsep \o text)
            /\ colnum' = colnum + 1

\* The body shared by any_column_header and the write_*_value handlers
write_cell(text) ==
  /\ UNCHANGED <<outfilename, outfile, tablenum, colsep, included_tables,
                 excluded_tables, suppress_table, only_names>>
  /\ IF suppress_table
       THEN UNCHANGED <<colnum, out>>
       ELSE /\ write((IF colnum > 0 THEN colsep ELSE <<>>) \o text)
            /\ colnum' = colnum + 1

any_column_header(colname) == write_cell(quote_for_csv(colname))

\* a row end that lifts the suppression
end_row_clears_suppress ==
  /\ UNCHANGED <<outfilename, outfile, tablenum, colsep, colnum, included_tables,
                 excluded_tables, only_names>>
  /\ suppress_table' = FALSE
  /\ IF suppress_table THEN UNCHANGED out ELSE write(<<NL>>)

end_row ==
  /\ UNCHANGED <<outfilename, outfile, tablenum, colsep, colnum, included_tables,
                 excluded_tables, suppress_table, only_names>>
  /\ IF suppress_table THEN UNCHANGED out ELSE write(<<NL>>)

write_uint64_value(value) == write_cell(format_uint64(value))

write_string_value(value) == write_cell(quote_for_csv(value))

\* a bool rendered as TRUE only when it is exactly 1
write_bool_value_only1(value) ==
  write_cell(IF value = 1 THEN <<"T", "R", "U", "E">> ELSE <<"F", "A", "L", "S", "E">>)

write_bool_value(value) == write_cell(format_bool(value))

----------------------------------------------------------------------------
(* The decoder, bf_process_byfl_file: it delivers the events of each table in
   the order TableBegin, ColumnBegin, column headers, ColumnEnd, then rows of
   RowBegin, values, RowEnd; it may report an error at any point. *)

Deliver(ev, next) ==
  /\ pc = "decoding"
  /\ Len(hist) < MaxEvents
  /\ hist' = Append(hist, ev)
  /\ dpos' = next
  /\ UNCHANGED <<args, synced, diag, pc, status, arg, ret>>

table_begin_cb(name) ==
  /\ dpos \in {"tables", "rows"}
  /\ Deliver(Ev("TableBegin", name, 0), "table")
  /\ begin_any_table(name)

column_begin_cb ==
  /\ dpos = "table"
  /\ Deliver(Ev("ColumnBegin", <<>>, 0), "header")
  /\ begin_row

column_cb(name) ==
  /\ dpos = "header"
  /\ Deliver(Ev("Column", name, 0), "header")
  /\ any_column_header(name)

column_end_cb ==
  /\ dpos = "header"
  /\ Deliver(Ev("ColumnEnd", <<>>, 0), "rows")
  /\ end_row

row_begin_cb ==
  /\ dpos = "rows"
  /\ Deliver(Ev("RowBegin", <<>>, 0), "row")
  /\ begin_row

data_uint64_cb(value) ==
  /\ dpos = "row"
  /\ Deliver(Ev("U64", <<>>, value), "row")
  /\ write_uint64_value(value)

data_string_cb(value) ==
  /\ dpos = "row"
  /\ Deliver(Ev("Str", value, 0), "row")
  /\ write_string_value(value)

data_bool_cb(value) ==
  /\ dpos = "row"
  /\ Deliver(Ev("Bool", <<>>, value), "row")
  /\ write_bool_value(value)

row_end_cb ==
  /\ dpos = "row"
  /\ Deliver(Ev("RowEnd", <<>>, 0), "rows")
  /\ end_row

\* error_callback: the message goes to cerr, then die
error_callback ==
  /\ pc = "decoding"
  /\ die("decoder")
  /\ UNCHANGED <<args, out, dpos, hist, arg, ret>>
  /\ UNCHANGED lvars

\* bf_process_byfl_file returns at the end of the stream; main returns 0 and
\* its LocalState is destroyed.
main_return ==
  /\ pc = "decoding"
  /\ dpos \in {"tables", "rows"}
  /\ LocalState_dtor
  /\ pc' = "exited"
  /\ status' = 0
  /\ UNCHANGED <<args, out, diag, dpos, hist, arg, ret>>
  /\ UNCHANGED lvars

Next ==
  \/ LocalState_ctor
  \/ \E name \in TableNames : table_begin_cb(name)
  \/ column_begin_cb
  \/ \E name \in ColNames : column_cb(name)
  \/ column_end_cb
  \/ row_begin_cb
  \/ \E value \in U64Values : data_uint64_cb(value)
  \/ \E value \in StrValues : data_string_cb(value)
  \/ \E value \in BoolValues : data_bool_cb(value)
  \/ row_end_cb
  \/ error_callback
  \/ main_return

Spec == Init /\ [][Next]_vars

----------------------------------------------------------------------------
(* quote_for_csv as a call of its own: the argument is drawn from the strings
   over QuoteAlphabet of length at most MaxStrLen. *)

InitQuote ==
  /\ args = [output |-> <<>>, colsep |-> <<>>, include |-> {}, exclude |-> {},
             list |-> FALSE, nfiles |-> 1]
  /\ outfilename = <<>>
  /\ outfile = "cout"
  /\ tablenum = 0
  /\ colsep = <<",">>
  /\ colnum = 0
  /\ included_tables = {}
  /\ excluded_tables = {}
  /\ suppress_table = FALSE
  /\ only_names = FALSE
  /\ out = <<>>
  /\ synced = 0
  /\ diag = ""
  /\ pc = "call"
  /\ status = -1
  /\ dpos = "tables"
  /\ hist = <<>>
  /\ arg \in StringsUpTo(QuoteAlphabet, MaxStrLen)
  /\ ret = <<>>

quote_call ==
  /\ pc = "call"
  /\ ret' = quote_for_csv(arg)
  /\ pc' = "ret"
  /\ UNCHANGED <<args, out, synced, diag, status, dpos, hist, arg>>
  /\ UNCHANGED lvars

NextQuote == quote_call

SpecQuote == InitQuote /\ [][NextQuote]_vars

----------------------------------------------------------------------------
(* Reading the delivered events back *)

Last(s) == s[Len(s)]

IsCell(e) == e.kind \in {"Column", "U64", "Str", "Bool"}

TableBegins(h) == {i \in 1..Len(h) : h[i].kind = "TableBegin"}

\* The event just delivered by a step
Delivered == hist' # hist

\* The name of the table the last delivered event belongs to
CurrentTable(h) ==
  LET i == CHOOSE k \in TableBegins(h) : \A j \in TableBegins(h) : j <= k
  IN  h[i].name

Passes(name) ==
  /\ included_tables # {} => name \in included_tables
  /\ excluded_tables # {} => name \notin excluded_tables

NoFilter == included_tables = {} /\ excluded_tables = {}

RECURSIVE Count(_, _)
Count(c, s) ==
  IF s = <<>> THEN 0 ELSE (IF Head(s) = c THEN 1 ELSE 0) + Count(c, Tail(s))

Without(c, s) == SelectSeq(s, LAMBDA x : x # c)

EndsWith(s, t) ==
  /\ Len(s) >= Len(t)
  /\ SubSeq(s, Len(s) - Len(t) + 1, Len(s)) = t

----------------------------------------------------------------------------
(* C1: the layout of the output with no filter and only-names off *)

\* The text of one cell, as the layout states it
CellText(e) ==
  CASE e.kind = "U64"  -> format_uint64(e.num)
    [] e.kind = "Bool" -> IF e.num = 0 THEN <<"F", "A", "L", "S", "E">>
                                       ELSE <<"T", "R", "U", "E">>
    [] OTHER           -> quote_for_csv(e.name)

\* The texts of the cells that follow position i up to the end of their row
RECURSIVE CellsFrom(_, _)
CellsFrom(h, i) ==
  IF i > Len(h) \/ ~IsCell(h[i]) THEN <<>>
  ELSE <<CellText(h[i])>> \o CellsFrom(h, i + 1)

RECURSIVE Join(_, _)
Join(texts, sep) ==
  IF texts = <<>> THEN <<>>
  ELSE IF Len(texts) = 1 THEN texts[1]
  ELSE texts[1] \o sep \o Join(Tail(texts), sep)

\* The line an event opens: a name line, or a header or data row
LineAt(h, i, blank) ==
  CASE h[i].kind = "TableBegin" ->
         (IF blank /\ \E j \in TableBegins(h) : j < i THEN <<NL>> ELSE <<>>)
         \o quote_for_csv(h[i].name) \o <<NL>>
    [] h[i].kind \in {"ColumnBegin", "RowBegin"} ->
         Join(CellsFrom(h, i + 1), colsep) \o <<NL>>
    [] OTHER -> <<>>

RECURSIVE LinesFrom(_, _, _)
LinesFrom(h, i, blank) ==
  IF i > Len(h) THEN <<>>
  ELSE LineAt(h, i, blank) \o LinesFrom(h, i + 1, blank)

\* The decoder stands between two rows: the events so far are whole rows
WholeRows == pc # "ctor" /\ dpos \in {"tables", "rows"}

\* C1 as stated: with no filter and only-names off the output is, per table in
\* stream order, the name line, the header row and the data rows, and nothing
\* else.
C1_BlocksOnly ==
  (WholeRows /\ NoFilter /\ ~only_names) => out = LinesFrom(hist, 1, FALSE)

\* C1 amended: with no filter and only-names off the output is, per table in
\* stream order, one extra newline if an earlier table exists, then the quoted
\* name and a newline, the quoted column names joined by the separator and a
\* newline, and each data row's values joined by the separator and a newline
\* (uint64 in decimal, bool as FALSE/TRUE, string quoted).
C1_Layout ==
  (WholeRows /\ NoFilter /\ ~only_names) => out = LinesFrom(hist, 1, TRUE)

\* The stream T1, [A, B], [5, "x"] with separator ',' has been rendered and
\* the decoder has returned.
C1_Witness ==
  /\ pc = "exited" /\ status = 0
  /\ NoFilter /\ ~only_names /\ colsep = <<",">>
  /\ hist = <<Ev("TableBegin", T1, 0), Ev("ColumnBegin", <<>>, 0),
              Ev("Column", <<"A">>, 0), Ev("Column", <<"B">>, 0),
              Ev("ColumnEnd", <<>>, 0), Ev("RowBegin", <<>>, 0),
              Ev("U64", <<>>, 5), Ev("Str", <<"x">>, 0), Ev("RowEnd", <<>>, 0)>>
  /\ out = <<DQ, "T", "1", DQ, NL,
             DQ, "A", DQ, ",", DQ, "B", DQ, NL,
             "5", ",", DQ, "x", DQ, NL>>

----------------------------------------------------------------------------
(* C2 - C6: the table filter, the blank line between tables, only-names *)

\* The step is a TableBegin(name) and writes that table's name line
NameLineWritten(name) ==
  /\ out' # out
  /\ Len(out') > Len(out)
  /\ SubSeq(out', 1, Len(out)) = out
  /\ EndsWith(out', quote_for_csv(name) \o <<NL>>)

TableBeginStep == Delivered /\ Last(hist').kind = "TableBegin"

\* C2: a TableBegin(name) writes the table's name line iff name is in the
\* include-set when that set is non-empty, iff name is absent from the
\* exclude-set when that set is non-empty, and always when both are empty.
C2_FilterDecides ==
  [][TableBeginStep =>
       LET name == Last(hist').name
       IN  /\ included_tables # {} =>
                (NameLineWritten(name) <=> name \in included_tables)
           /\ excluded_tables # {} =>
                (NameLineWritten(name) <=> name \notin excluded_tables)
           /\ NoFilter => NameLineWritten(name)]_vars

\* Under an include-set {T1}, table T2 was turned away and table T1 rendered.
C2_Witness ==
  /\ included_tables = {T1}
  /\ Len(hist) = 4
  /\ hist[1] = Ev("TableBegin", T2, 0)
  /\ hist[4] = Ev("TableBegin", T1, 0)
  /\ out = quote_for_csv(T1) \o <<NL>>

\* C3: every event of a table the filter removes, its TableBegin included,
\* leaves the output, tablenum and colnum unchanged; a stream all of whose
\* tables are removed has written nothing.
C3_FilteredTableIsSilent ==
  /\ [][(Delivered /\ ~Passes(CurrentTable(hist')))
          => UNCHANGED <<out, tablenum, colnum>>]_vars
  /\ []((\A i \in TableBegins(hist) : ~Passes(hist[i].name)) => out = <<>>)

\* A value of a removed table was delivered after a rendered table had left
\* colnum at 1.
C3_Witness ==
  /\ hist # <<>>
  /\ TableBegins(hist) # {}
  /\ ~Passes(CurrentTable(hist))
  /\ Last(hist).kind = "U64"
  /\ colnum = 1
  /\ out # <<>>

\* C4: with only-names off, a TableBegin that passes the filter writes one
\* extra newline before its name line iff an earlier table passed the filter,
\* and a TableBegin that does not pass writes nothing.
C4_OneBlankLineBetweenRendered ==
  [][(TableBeginStep /\ ~only_names) =>
       LET name == Last(hist').name
           earlier == \E i \in TableBegins(hist) : Passes(hist[i].name)
       IN  IF Passes(name)
             THEN out' = out \o (IF earlier THEN <<NL>> ELSE <<>>)
                             \o quote_for_csv(name) \o <<NL>>
             ELSE out' = out]_vars

\* Two rendered tables with a removed one between them, each with an empty
\* header row: name line, header line, blank line, name line.
C4_Witness ==
  /\ ~only_names
  /\ excluded_tables = {T1}
  /\ Len(hist) = 7
  /\ hist[1] = Ev("TableBegin", T2, 0)
  /\ hist[4] = Ev("TableBegin", T1, 0)
  /\ hist[7] = Ev("TableBegin", T2, 0)
  /\ out = quote_for_csv(T2) \o <<NL, NL>> \o <<NL>> \o quote_for_csv(T2) \o <<NL>>

\* The name lines of the tables that pass the filter, in stream order
RECURSIVE NameLines(_, _)
NameLines(h, i) ==
  IF i > Len(h) THEN <<>>
  ELSE (IF h[i].kind = "TableBegin" /\ Passes(h[i].name)
          THEN quote_for_csv(h[i].name) \o <<NL>> ELSE <<>>)
       \o NameLines(h, i + 1)

\* C5: with only-names set the output is exactly the quoted name lines of the
\* tables that pass the filter, in stream order: no header row, no data row.
C5_OnlyNameLines ==
  (pc # "ctor" /\ only_names) => out = NameLines(hist, 1)

\* Only-names: a table with a header and a data row, then a second table.
C5_Witness ==
  /\ only_names
  /\ Len(hist) = 9
  /\ hist[1] = Ev("TableBegin", T2, 0)
  /\ hist[3].kind = "Column"
  /\ hist[6].kind = "U64"
  /\ hist[8] = Ev("TableBegin", T1, 0)
  /\ Passes(T1) /\ Passes(T2)
  /\ out = quote_for_csv(T2) \o <<NL>> \o quote_for_csv(T1) \o <<NL>>

\* C6 as stated: with only-names set, every name line after the first is
\* preceded by an extra newline.
C6_BlankLineInList ==
  [][(TableBeginStep /\ only_names /\ Passes(Last(hist').name)) =>
       out' = out \o (IF out # <<>> THEN <<NL>> ELSE <<>>)
                  \o quote_for_csv(Last(hist').name) \o <<NL>>]_vars

\* C6 amended: with only-names set no name line is preceded by a blank line,
\* neither the first nor a later one: the output never holds an empty line.
C6_NoBlankLineInList ==
  (pc # "ctor" /\ only_names) =>
     \A i \in 1..Len(out) : out[i] = NL => (i > 1 /\ out[i - 1] # NL)

\* Only-names: two name lines have been written.
C6_Witness ==
  /\ only_names
  /\ Cardinality({i \in TableBegins(hist) : Passes(hist[i].name)}) = 2
  /\ Count(NL, out) = 2

----------------------------------------------------------------------------
(* C7 - C9: quote_for_csv *)

Returned == pc = "ret"

\* The result without the '=' the guard may have put in front
Unguarded(s, r) == IF s # <<>> /\ s[1] = "-" /\ r # <<>> /\ r[1] = "=" THEN Tail(r) ELSE r

\* C7: quote(s) holds 2 * (double quotes of s) + 2 double quotes; apart from
\* the added double quotes and the optional leading '=', its characters are
\* those of s, in order.
C7_QuoteCount ==
  Returned =>
    /\ Count(DQ, ret) = 2 * Count(DQ, arg) + 2
    /\ Without(DQ, Unguarded(arg, ret)) = Without(DQ, arg)
    /\ Len(Unguarded(arg, ret)) = Len(arg) + Count(DQ, arg) + 2

\* A string with an internal double quote has been quoted.
C7_Witness ==
  Returned /\ arg = <<"a", DQ, "=">> /\ ret = <<DQ, "a", DQ, DQ, "=", DQ>>

\* C8 as stated: for every s, the empty string and a leading '-' included,
\* quote(s) starts with a double quote and ends with a double quote.
C8_StartsAndEndsWithQuote ==
  Returned => (ret # <<>> /\ ret[1] = DQ /\ Last(ret) = DQ)

\* C8 amended: quote(s) ends with a double quote for every s, and starts with
\* a double quote for every s whose first character is not '-'; when s starts
\* with '-' the double quote is the second character, after '='.
C8_QuotedAtBothEnds ==
  Returned =>
    /\ Len(ret) >= 2
    /\ Last(ret) = DQ
    /\ IF arg # <<>> /\ arg[1] = "-"
         THEN ret[1] = "=" /\ ret[2] = DQ
         ELSE ret[1] = DQ

\* The empty string has been quoted.
C8_Witness ==
  Returned /\ arg = <<>> /\ ret = <<DQ, DQ>>

\* C9: quote(s) begins with '=' and a double quote iff s is non-empty and its
\* first character is '-'.
C9_GuardIffLeadingMinus ==
  Returned =>
    ((Len(ret) >= 2 /\ ret[1] = "=" /\ ret[2] = DQ)
       <=> (Len(arg) > 0 /\ arg[1] = "-"))

\* A string that starts with '-' has been quoted.
C9_Witness ==
  Returned /\ arg = <<"-", "a">> /\ ret = <<"=", DQ, "-", "a", DQ>>

----------------------------------------------------------------------------
(* C10: what has reached the sink when the process has exited *)

----------------------------------------------------------------------------
(* C11: --include together with --exclude *)

\* C11: the include-set and the exclude-set are never both non-empty while
\* the decoder runs or after it has delivered an event; a command line with
\* both --include and --exclude ends in exit status 1 with a diagnostic, with
\* no event delivered and nothing written.
C11_IncludeExcludeExclusive ==
  /\ (pc = "decoding" \/ hist # <<>>) =>
        ~(included_tables # {} /\ excluded_tables # {})
  /\ (pc # "ctor" /\ args.include # {} /\ args.exclude # {}) =>
        /\ pc = "exited" /\ status = 1
        /\ diag \in {"usage", "escape", "nofile", "manyfiles"}
        /\ hist = <<>> /\ out = <<>>

\* -i T1 -e T1 with one input file and a good separator: the constructor has
\* reported the conflict and the process has exited.
C11_Witness ==
  /\ args.include = {T1} /\ args.exclude = {T1} /\ args.nfiles = 1
  /\ pc = "exited" /\ status = 1 /\ diag = "usage"
  /\ included_tables = {T1} /\ excluded_tables = {T1}

----------------------------------------------------------------------------
(* The -c option as a run of its own: "colsep = string(optarg); colsep =
   expand_escapes(colsep)" on a raw string over ExpandAlphabet of length at
   most MaxRawLen.  An unrecognized escape dies inside expand_escapes. *)

InitExpand ==
  /\ args = [output |-> <<>>, colsep |-> <<>>, include |-> {}, exclude |-> {},
             list |-> FALSE, nfiles |-> 1]
  /\ outfilename = <<>>
  /\ outfile = "cout"
  /\ tablenum = 0
  /\ colsep = <<",">>
  /\ colnum = 0
  /\ included_tables = {}
  /\ excluded_tables = {}
  /\ suppress_table = FALSE
  /\ only_names = FALSE
  /\ out = <<>>
  /\ synced = 0
  /\ diag = ""
  /\ pc = "call"
  /\ status = -1
  /\ dpos = "tables"
  /\ hist = <<>>
  /\ arg \in StringsUpTo(ExpandAlphabet, MaxRawLen)
  /\ ret = <<>>

expand_call ==
  /\ pc = "call"
  /\ UNCHANGED <<args, outfilename, outfile, tablenum, colnum, included_tables,
                 excluded_tables, suppress_table, only_names, out, dpos, hist, arg>>
  /\ LET r == expand_escapes(arg)
     IN  IF r.ok
           THEN /\ ret' = r.str
                /\ colsep' = r.str
                /\ pc' = "ret"
                /\ UNCHANGED <<diag, status, synced>>
           ELSE /\ ret' = ret
                /\ colsep' = arg
                /\ die("escape")

NextExpand == expand_call

SpecExpand == InitExpand /\ [][NextExpand]_vars

----------------------------------------------------------------------------
(* C12 - C14: expand_escapes *)

Recognized == {BS, "'", DQ, "t", "n", "r"}

\* The character a recognized escape stands for
Escaped(c) ==
  CASE c = "t" -> TAB
    [] c = "n" -> NL
    [] c = "r" -> "\r"
    [] OTHER   -> c

\* s is made of ordinary characters and recognized two-character escapes
RECURSIVE OnlyGoodEscapes(_)
OnlyGoodEscapes(s) ==
  IF s = <<>> THEN TRUE
  ELSE IF Head(s) # BS THEN OnlyGoodEscapes(Tail(s))
  ELSE Len(s) >= 2 /\ s[2] \in Recognized /\ OnlyGoodEscapes(SubSeq(s, 3, Len(s)))

\* Such an s with each escape replaced by its character
RECURSIVE Expansion(_)
Expansion(s) ==
  IF s = <<>> THEN <<>>
  ELSE IF Head(s) # BS THEN <<Head(s)>> \o Expansion(Tail(s))
  ELSE <<Escaped(s[2])>> \o Expansion(SubSeq(s, 3, Len(s)))

\* C12: for an input made only of ordinary characters and recognized escapes,
\* expand returns the input with each escape replaced by the one character it
\* stands for and every other character copied in order.
C12_ExpandsRecognizedEscapes ==
  (pc # "call" /\ OnlyGoodEscapes(arg)) =>
     (pc = "ret" /\ ret = Expansion(arg) /\ colsep = ret /\ status = -1)

\* a, backslash, t, b has been expanded to a, TAB, b.
C12_Witness ==
  pc = "ret" /\ arg = <<"a", BS, "t", "b">> /\ ret = <<"a", TAB, "b">>

\* expand has died on an unrecognized escape: exit status 1, no string
\* returned, no event delivered, nothing written
DiedInExpand ==
  /\ pc = "exited" /\ status = 1 /\ diag = "escape"
  /\ ret = <<>> /\ hist = <<>> /\ out = <<>>

\* Some backslash of s is followed by a character that is not recognized
BackslashThenOther(s) ==
  \E i \in 1..(Len(s) - 1) : s[i] = BS /\ s[i + 1] \notin Recognized

\* Read left to right, some backslash that opens an escape (one that is not
\* itself the escaped character of the escape before it) is followed by a
\* character that is not recognized
RECURSIVE BadEscape(_)
BadEscape(s) ==
  IF Len(s) < 2 THEN FALSE
  ELSE IF Head(s) # BS THEN BadEscape(Tail(s))
  ELSE s[2] \notin Recognized \/ BadEscape(SubSeq(s, 3, Len(s)))

\* C13 as stated: if the separator contains a backslash followed by a
\* character other than backslash, quote, double quote, t, n or r, expand
\* fails and the process exits with status 1, returning no string and with no
\* event processed.
C13_AnyBackslashThenOther ==
  (pc # "call" /\ BackslashThenOther(arg)) => DiedInExpand

\* C13 amended: if, read left to right, the separator contains a backslash
\* that opens an escape (it is not the escaped character of a preceding
\* backslash) followed by a character other than backslash, quote, double
\* quote, t, n or r, expand fails and the process exits with status 1,
\* returning no string and with no event processed.
C13_BadEscapeDies ==
  (pc # "call" /\ BadEscape(arg)) => DiedInExpand

\* The separator a, backslash, q has been rejected.
C13_Witness ==
  arg = <<"a", BS, "q">> /\ DiedInExpand /\ colsep = arg

\* s ends with a backslash that opens an escape and has no character after it
TrailingBackslash(s) ==
  /\ s # <<>>
  /\ Last(s) = BS
  /\ OnlyGoodEscapes(SubSeq(s, 1, Len(s) - 1))

\* C14: a separator that ends with a lone backslash is rejected like an
\* unrecognized escape: the invalid-escape error is raised, the process exits
\* with status 1 and no expanded string is produced.
C14_TrailingBackslashDies ==
  (pc # "call" /\ TrailingBackslash(arg)) => DiedInExpand

----------------------------------------------------------------------------
(* C15 - C19: the counters, the suppression flag and the configuration *)

IsBegin(e) == e.kind \in {"ColumnBegin", "RowBegin"}

\* The step delivers the first value of a header row or data row
FirstValueStep == Delivered /\ IsCell(Last(hist')) /\ hist # <<>> /\ IsBegin(Last(hist))

\* C15 as stated: when the first value of any header or data row is handled
\* colnum is 0, in a suppressed table too, and every ColumnBegin/RowBegin
\* resets colnum.
C15_ZeroAtFirstValueAlways ==
  [][/\ FirstValueStep => colnum = 0
     /\ (Delivered /\ IsBegin(Last(hist'))) => colnum' = 0]_vars

\* C15 amended: when the first value of a header or data row of a table that
\* is not suppressed is handled, colnum is 0, whatever the previous row held
\* and whether or not the previous table was suppressed; a ColumnBegin/RowBegin
\* resets colnum in a table that is not suppressed and leaves it as it is in a
\* suppressed one.
C15_ZeroAtFirstValueOfRendered ==
  [][/\ (FirstValueStep /\ ~suppress_table) => colnum = 0
     /\ (Delivered /\ IsBegin(Last(hist'))) =>
           colnum' = IF suppress_table THEN colnum ELSE 0]_vars

\* A header row of two names, then the first value of a data row of the same
\* rendered table has been handled.
C15_Witness ==
  /\ ~suppress_table
  /\ Len(hist) = 7
  /\ hist[3].kind = "Column" /\ hist[4].kind = "Column"
  /\ hist[6].kind = "RowBegin"
  /\ hist[7].kind = "U64"
  /\ colnum = 1

\* C16: only a TableBegin changes suppress_table: every other event, and the
\* end of the run, leaves it as the last TableBegin set it.
C16_SuppressStableWithinTable ==
  [][(pc = "decoding" /\ ~TableBeginStep) => suppress_table' = suppress_table]_vars

\* A table removed by the filter, with only-names off, has gone through its
\* header and a whole data row and is still suppressed.
C16_Witness ==
  /\ suppress_table /\ ~only_names
  /\ Len(hist) >= 6
  /\ Last(hist).kind = "RowEnd"
  /\ hist[Len(hist) - 1].kind = "Bool"
  /\ ~Passes(CurrentTable(hist))

\* The cells delivered since the last ColumnBegin/RowBegin
RECURSIVE CellsInRow(_)
CellsInRow(h) ==
  IF h = <<>> \/ ~IsCell(Last(h)) THEN 0
  ELSE 1 + CellsInRow(SubSeq(h, 1, Len(h) - 1))

\* C17: in a table that is not suppressed each value event writes the column
\* separator before the value iff colnum > 0, then the value, and adds 1 to
\* colnum; inside a row colnum is the number of values written, so a row of n
\* values holds n - 1 separators.
C17_SeparatorBetweenCells ==
  /\ [][(Delivered /\ IsCell(Last(hist')) /\ ~suppress_table) =>
          /\ out' = out \o (IF colnum > 0 THEN colsep ELSE <<>>)
                        \o CellText(Last(hist'))
          /\ colnum' = colnum + 1]_vars
  /\ []((pc = "decoding" /\ dpos \in {"header", "row"} /\ ~suppress_table)
          => colnum = CellsInRow(hist))

\* The second value of a data row has been written after a TAB separator.
C17_Witness ==
  /\ ~suppress_table
  /\ colsep = <<TAB>>
  /\ colnum = 2
  /\ Len(hist) >= 2
  /\ Last(hist).kind = "Str"
  /\ hist[Len(hist) - 1].kind = "Bool"
  /\ EndsWith(out, <<"T", "R", "U", "E", TAB, DQ, "x", DQ>>)

\* The name lines emitted so far
EmittedNames(h) == Cardinality({i \in TableBegins(h) : Passes(h[i].name)})

\* C18 as stated: in every mode, only-names included, tablenum is the number
\* of name lines emitted so far.
C18_CountsNameLinesInEveryMode ==
  tablenum = EmittedNames(hist)

\* C18 amended: with only-names off tablenum is the number of name lines
\* emitted so far (0 at the start, one more after each TableBegin that emits a
\* name line, unchanged by every other event); with only-names set it stays 0
\* however many name lines are emitted.
C18_CountsNameLinesUnlessList ==
  tablenum = IF only_names THEN 0 ELSE EmittedNames(hist)

\* Two name lines emitted and counted, with a filtered table between them.
C18_Witness ==
  /\ ~only_names
  /\ tablenum = 2
  /\ \E i \in TableBegins(hist) : ~Passes(hist[i].name)

\* The separator the command line asks for
ConfiguredSep ==
  IF args.colsep = <<>> THEN <<",">>
  ELSE Expansion(args.colsep[Len(args.colsep)])

\* C19: no event handler changes only_names, colsep, the include-set or the
\* exclude-set: from the end of the constructor on they keep the values the
\* command line gave them.
C19_ConfigurationFixed ==
  /\ [][pc = "decoding" =>
          UNCHANGED <<only_names, colsep, included_tables, excluded_tables>>]_vars
  /\ []((pc = "decoding" \/ hist # <<>>) =>
          /\ only_names = args.list
          /\ colsep = ConfiguredSep
          /\ included_tables = args.include
          /\ excluded_tables = args.exclude)

\* Under -i T1 -l -c '\t' a table of the include-set has been listed and one
\* of its rows has ended.
C19_Witness ==
  /\ only_names /\ included_tables = {T1} /\ colsep = <<TAB>>
  /\ hist # <<>>
  /\ hist[1] = Ev("TableBegin", T1, 0)
  /\ Last(hist).kind = "RowEnd"

----------------------------------------------------------------------------
(* C20: reading a quoted string back *)

\* Each pair of adjacent double quotes replaced by one, left to right
RECURSIVE Undouble(_)
Undouble(s) ==
  IF s = <<>> THEN <<>>
  ELSE IF Len(s) >= 2 /\ s[1] = DQ /\ s[2] = DQ
    THEN <<DQ>> \o Undouble(SubSeq(s, 3, Len(s)))
  ELSE <<Head(s)>> \o Undouble(Tail(s))

\* An optional leading '=' removed, the first and last double quote stripped,
\* the doubled double quotes undoubled
Unquote(r) ==
  LET body == IF r # <<>> /\ r[1] = "=" THEN Tail(r) ELSE r
  IN  IF Len(body) < 2 \/ body[1] # DQ \/ Last(body) # DQ THEN <<"?">>
      ELSE Undouble(SubSeq(body, 2, Len(body) - 1))

\* C20: unquoting quote(s) yields s again, and no other string of the domain
\* has the same quoted form.
C20_QuoteReversible ==
  Returned =>
    /\ Unquote(ret) = arg
    /\ \A s \in StringsUpTo(QuoteAlphabet, MaxStrLen) :
         quote_for_csv(s) = ret => s = arg

\* A string that starts with '-' and holds two adjacent double quotes has
\* been quoted.
C20_Witness ==
  /\ Returned
  /\ arg = <<"-", DQ, DQ>>
  /\ ret = <<"=", DQ, "-", DQ, DQ, DQ, DQ, DQ>>

====
